---- MODULE Spec2Model ----
(***************************************************************************)
(* vsphere-collector: the collection pass of src/vsphere.go.               *)
(*                                                                         *)
(* The file holds two programs with the same driver (main):                *)
(*   "collect" (lines 1-179)   builds a tags map and a records map per     *)
(*                             object and drops them;                      *)
(*   "print"   (lines 199-384) prints the fields of every object.          *)
(* Both are modelled; variant says which one runs.                         *)
(*                                                                         *)
(* The govmomi calls (url.Parse, NewClient, DefaultDatacenter,             *)
(* DatastoreList, VirtualMachineList, Retrieve) are the environment: each  *)
(* either returns an error or succeeds, as the inventory allows.           *)
(*                                                                         *)
(* Values.  A string is an integer code, 0 being the empty string; a       *)
(* number is itself.  Absent marks a property the server did not report.   *)
(***************************************************************************)
EXTENDS Integers, Sequences, FiniteSets, TLC

VARIABLES
    variant,        \* "collect" | "print": which of the two programs runs
    pc,             \* position of main
    i,              \* index of the running `for ... range` loop
    dcCount,        \* environment: number of datacenters of the endpoint
    invDS,          \* environment: the datastores, a sequence of profiles
    invVM,          \* environment: the virtual machines, a sequence of profiles
    err,            \* main's / Gather*'s variable err
    dss,            \* main's dss: the enumerated datastores (ids)
    vms,            \* main's vms: the enumerated virtual machines (ids)
    dst,            \* GatherDataStoreMetrics' dst: retrieved datastores (ids)
    vmt,            \* GatherVMMetrics' vmt: retrieved virtual machines (ids)
    listCalls,      \* calls of DatastoreList / VirtualMachineList received
    retrieveCalls,  \* calls of pc.Retrieve received, per kind
    retrieved,      \* kinds whose Retrieve call returned without error
    collected,      \* kinds whose Gather* function has returned
    produced,       \* per kind, the records the loop bodies have built
    tw,             \* the tabwriter's buffer ("print")
    stdout,         \* what has reached standard output
    stderr,         \* what has reached the error stream
    exitCode        \* -1 while running, else the process's exit status

vars == <<variant, pc, i, dcCount, invDS, invVM, err, dss, vms, dst, vmt,
          listCalls, retrieveCalls, retrieved, collected, produced, tw,
          stdout, stderr, exitCode>>

----------------------------------------------------------------------------
(* Bounds and the environment's values *)

MaxObjs == 2
MaxDatacenters == 2

Kinds == {"ds", "vm"}
Variants == {"collect", "print"}
Nil == "nil"
Absent == 0 - 1
Running == 0 - 1

DSProfiles == {"full", "zero", "bare"}
VMProfiles == {"full", "zero", "orphan"}

SeqsUpTo(S, n) == UNION {[1..k -> S] : k \in 0..n}

\* what the server reports for the datastore id of profile p (its summary)
RawDS(id, p) ==
    CASE p = "full" -> [Name |-> id, Type |-> 1, Url |-> id,
                        Capacity |-> 2, FreeSpace |-> 1]
      [] p = "zero" -> [Name |-> id, Type |-> 1, Url |-> id,
                        Capacity |-> 0, FreeSpace |-> 0]
      [] OTHER      -> [Name |-> Absent, Type |-> Absent, Url |-> Absent,
                        Capacity |-> Absent, FreeSpace |-> Absent]

\* what the server reports for the virtual machine id of profile p
RawVM(id, p) ==
    CASE p = "full" ->
           [Name |-> id, HasConfig |-> TRUE,
            GuestFullName |-> 1, GuestId |-> 1, MemoryMB |-> 1, NumCPU |-> 1,
            NumCoresPerSocket |-> 1,
            ConnectionState |-> 1, OverallStatus |-> 1, VmPathName |-> id,
            IpAddress |-> id, HostName |-> id, ToolsRunningStatus |-> 1,
            HostMemoryUsage |-> 1, GuestMemoryUsage |-> 1,
            OverallCpuUsage |-> 1, OverallCpuDemand |-> 1,
            SwappedMemory |-> 1, UptimeSeconds |-> 1, Committed |-> 1,
            Uncommitted |-> 1, MaxCpuUsage |-> 1, MaxMemoryUsage |-> 1]
      [] p = "zero" ->
           [Name |-> id, HasConfig |-> TRUE,
            GuestFullName |-> 1, GuestId |-> 1, MemoryMB |-> 1, NumCPU |-> 1,
            NumCoresPerSocket |-> 1,
            ConnectionState |-> 1, OverallStatus |-> 1, VmPathName |-> id,
            IpAddress |-> 0, HostName |-> 0, ToolsRunningStatus |-> 1,
            HostMemoryUsage |-> 0, GuestMemoryUsage |-> 0,
            OverallCpuUsage |-> 0, OverallCpuDemand |-> 0,
            SwappedMemory |-> 0, UptimeSeconds |-> 0, Committed |-> 0,
            Uncommitted |-> 0, MaxCpuUsage |-> 1, MaxMemoryUsage |-> 1]
      [] OTHER ->
           [Name |-> id, HasConfig |-> FALSE,
            GuestFullName |-> Absent, GuestId |-> Absent, MemoryMB |-> Absent,
            NumCPU |-> Absent, NumCoresPerSocket |-> Absent,
            ConnectionState |-> 1, OverallStatus |-> 1, VmPathName |-> id,
            IpAddress |-> Absent, HostName |-> Absent,
            ToolsRunningStatus |-> Absent,
            HostMemoryUsage |-> Absent, GuestMemoryUsage |-> Absent,
            OverallCpuUsage |-> Absent, OverallCpuDemand |-> Absent,
            SwappedMemory |-> Absent, UptimeSeconds |-> Absent,
            Committed |-> 1, Uncommitted |-> 1,
            MaxCpuUsage |-> Absent, MaxMemoryUsage |-> Absent]

\* the orderings a batched reply may come back in: one entry per reference
Perms(refs) ==
    {q \in [1..Len(refs) -> {refs[k] : k \in 1..Len(refs)}] :
        \A a, b \in 1..Len(refs) : a # b => q[a] # q[b]}

----------------------------------------------------------------------------
(* The code's pieces *)

\* refs = append(refs, x.Reference()) over the enumerated objects
Refs(objs) == [k \in 1..Len(objs) |-> objs[k]]

\* a struct field that the reply left unset reads as Go's zero value
GoValue(v) == IF v = Absent THEN 0 ELSE v

\* the loop body of GatherDataStoreMetrics
NormalizeDS(id, raw) ==
    [id      |-> id,
     tags    |-> [name |-> GoValue(raw.Name),
                  type |-> GoValue(raw.Type),
                  url  |-> GoValue(raw.Url)],
     records |-> [capacity  |-> GoValue(raw.Capacity),
                  freespace |-> GoValue(raw.FreeSpace)]]

\* the loop body of GatherVMMetrics, program "collect"
NormalizeVM(id, raw) ==
    [id      |-> id,
     tags    |-> [name                   |-> GoValue(raw.Name),
                  guest_full_name        |-> GoValue(raw.GuestFullName),
                  connection_state       |-> GoValue(raw.ConnectionState),
                  overall_status         |-> GoValue(raw.OverallStatus),
                  vm_path_name           |-> GoValue(raw.VmPathName),
                  ip_address             |-> GoValue(raw.IpAddress),
                  hostname               |-> GoValue(raw.HostName),
                  guest_id               |-> GoValue(raw.GuestId),
                  is_guest_tools_running |-> GoValue(raw.ToolsRunningStatus)],
     records |-> [mem_mb               |-> GoValue(raw.MemoryMB),
                  num_cpu              |-> GoValue(raw.NumCPU),
                  host_mem_usage       |-> GoValue(raw.HostMemoryUsage),
                  guest_mem_usage      |-> GoValue(raw.GuestMemoryUsage),
                  overall_cpu_usage    |-> GoValue(raw.OverallCpuUsage),
                  overall_cpu_demand   |-> GoValue(raw.OverallCpuDemand),
                  swap_mem             |-> GoValue(raw.SwappedMemory),
                  uptime_sec           |-> GoValue(raw.UptimeSeconds),
                  storage_committed    |-> GoValue(raw.Committed),
                  storage_uncommitted  |-> GoValue(raw.Uncommitted),
                  max_cpu_usage        |-> GoValue(raw.MaxCpuUsage),
                  max_mem_usage        |-> GoValue(raw.MaxMemoryUsage),
                  num_cores_per_socket |-> GoValue(raw.NumCoresPerSocket)]]

\* the loop body of GatherVMMetrics, program "print": the fields it prints
PrintVM(id, raw) ==
    [id      |-> id,
     tags    |-> [name            |-> GoValue(raw.Name),
                  guest_full_name |-> GoValue(raw.GuestFullName)],
     records |-> [mem_mb              |-> GoValue(raw.MemoryMB),
                  num_cpu             |-> GoValue(raw.NumCPU),
                  host_mem_usage      |-> GoValue(raw.HostMemoryUsage),
                  guest_mem_usage     |-> GoValue(raw.GuestMemoryUsage),
                  overall_cpu_usage   |-> GoValue(raw.OverallCpuUsage),
                  overall_cpu_demand  |-> GoValue(raw.OverallCpuDemand),
                  swap_mem            |-> GoValue(raw.SwappedMemory),
                  uptime_sec          |-> GoValue(raw.UptimeSeconds),
                  storage_committed   |-> GoValue(raw.Committed),
                  storage_uncommitted |-> GoValue(raw.Uncommitted),
                  max_cpu_usage       |-> GoValue(raw.MaxCpuUsage),
                  max_mem_usage       |-> GoValue(raw.MaxMemoryUsage)]]

\* sort.Sort(ByName(vmt)): the orderings of vmt that ascend by Name
ByName(s) ==
    {q \in Perms(s) :
        \A a, b \in 1..Len(q) :
            a < b => GoValue(RawVM(q[a], invVM[q[a]]).Name)
                       <= GoValue(RawVM(q[b], invVM[q[b]]).Name)}

\* `if err != nil` after a call
IsErrIgnored(e) == FALSE
IsErr(e) == e # Nil

\* `if err != nil` after DatastoreList / VirtualMachineList: the list itself
\* is not inspected
ListFailedOnEmpty(e, objs) == e # Nil \/ Len(objs) = 0
ListFailed(e, objs) == e # Nil

\* one pc.Retrieve call for the whole slice of references
CallsPerObject(refs) == Len(refs)
CallsIssued(refs) == 1

\* the `for _, x := range dst` loop is over once every element was visited
LoopStopsEarly(k, s) == k >= Len(s)
LoopDone(k, s) == k > Len(s)

\* tw.Flush(): the buffered cells reach standard output
FlushDropped(out, buf) == out
Flush(out, buf) == out \o buf

\* the order of main's steps
MainVMsFirst(p) ==
    CASE p = "parse"       -> "connect"
      [] p = "connect"     -> "scope"
      [] p = "scope"       -> "vm_list"
      [] p = "vm_list"     -> "vm_retrieve"
      [] p = "vm_retrieve" -> "vm_loop"
      [] p = "vm_loop"     -> "ds_list"
      [] p = "ds_list"     -> "ds_retrieve"
      [] p = "ds_retrieve" -> "ds_loop"
      [] p = "ds_loop"     -> "main_return"
      [] OTHER             -> "done"
NextPc(p) ==
    CASE p = "parse"       -> "connect"
      [] p = "connect"     -> "scope"
      [] p = "scope"       -> "ds_list"
      [] p = "ds_list"     -> "ds_retrieve"
      [] p = "ds_retrieve" -> "ds_loop"
      [] p = "ds_loop"     -> "vm_list"
      [] p = "vm_list"     -> "vm_retrieve"
      [] p = "vm_retrieve" -> "vm_loop"
      [] p = "vm_loop"     -> "main_return"
      [] OTHER             -> "done"

\* exit(err): one "Error: ..." line on the error stream, then os.Exit(1)
exitFallsThrough(e) ==
    /\ stderr' = Append(stderr, e)
    /\ exitCode' = exitCode
    /\ pc' = NextPc(pc)
exit(e) ==
    /\ stderr' = Append(stderr, e)
    /\ exitCode' = 1
    /\ pc' = "failed"

\* a nil pointer dereference: the runtime prints its trace and exits with 2
panic ==
    /\ stderr' = Append(stderr, "panic: nil pointer dereference")
    /\ exitCode' = 2
    /\ pc' = "failed"

----------------------------------------------------------------------------
(* The state after construction *)

Init ==
    /\ variant \in Variants
    /\ pc = "parse"
    /\ i = 0
    /\ dcCount \in 0..MaxDatacenters
    /\ invDS = <<>>
    /\ invVM = <<>>
    /\ err = Nil
    /\ dss = <<>>
    /\ vms = <<>>
    /\ dst = <<>>
    /\ vmt = <<>>
    /\ listCalls = [k \in Kinds |-> 0]
    /\ retrieveCalls = [k \in Kinds |-> 0]
    /\ retrieved = {}
    /\ collected = {}
    /\ produced = [k \in Kinds |-> <<>>]
    /\ tw = <<>>
    /\ stdout = <<>>
    /\ stderr = <<>>
    /\ exitCode = Running

----------------------------------------------------------------------------
(* main, step by step *)

\* u, err := url.Parse(...); if err != nil { exit(err) }
ParseURL ==
    /\ pc = "parse"
    /\ \E e \in {Nil, "url.Parse error"} :
         /\ err' = e
         /\ IF IsErr(e)
              THEN exit(e)
              ELSE pc' = NextPc(pc) /\ UNCHANGED <<stderr, exitCode>>
    /\ UNCHANGED <<variant, i, dcCount, invDS, invVM, dss, vms, dst, vmt,
                   listCalls, retrieveCalls, retrieved, collected, produced,
                   tw, stdout>>

\* c, err := govmomi.NewClient(...); if err != nil { exit(err) }
Connect ==
    /\ pc = "connect"
    /\ \E e \in {Nil, "NewClient error"} :
         /\ err' = e
         /\ IF IsErr(e)
              THEN exit(e)
              ELSE pc' = NextPc(pc) /\ UNCHANGED <<stderr, exitCode>>
    /\ UNCHANGED <<variant, i, dcCount, invDS, invVM, dss, vms, dst, vmt,
                   listCalls, retrieveCalls, retrieved, collected, produced,
                   tw, stdout>>

\* dc, err := f.DefaultDatacenter(ctx): "Find one and only datacenter";
\* if err != nil { exit(err) }; f.SetDatacenter(dc)
ResolveScope ==
    /\ pc = "scope"
    /\ \E e \in {Nil, "DefaultDatacenter error"} :
         /\ dcCount # 1 => e # Nil
         /\ err' = e
         /\ IF IsErr(e)
              THEN exit(e)
              ELSE pc' = NextPc(pc) /\ UNCHANGED <<stderr, exitCode>>
    /\ UNCHANGED <<variant, i, dcCount, invDS, invVM, dss, vms, dst, vmt,
                   listCalls, retrieveCalls, retrieved, collected, produced,
                   tw, stdout>>

\* dss, err := f.DatastoreList(ctx, "*"); if err != nil { exit(err) }
DatastoreList ==
    /\ pc = "ds_list"
    /\ listCalls' = [listCalls EXCEPT !["ds"] = @ + 1]
    /\ \E inv \in SeqsUpTo(DSProfiles, MaxObjs), e \in {Nil, "DatastoreList error"} :
         LET objs == IF e = Nil THEN [k \in 1..Len(inv) |-> k] ELSE <<>> IN
         /\ e # Nil => inv = <<>>
         /\ invDS' = inv
         /\ err' = e
         /\ dss' = objs
         /\ IF ListFailed(e, objs)
              THEN exit(e)
              ELSE pc' = NextPc(pc) /\ UNCHANGED <<stderr, exitCode>>
    /\ UNCHANGED <<variant, i, dcCount, invVM, vms, dst, vmt, retrieveCalls,
                   retrieved, collected, produced, tw, stdout>>

\* GatherDataStoreMetrics up to its loop: the references, the one Retrieve
\* call, `if err != nil { exit(err) }`; "print" then writes the table header
\* to the tabwriter
RetrieveDatastores ==
    /\ pc = "ds_retrieve"
    /\ retrieveCalls' = [retrieveCalls EXCEPT !["ds"] = @ + CallsIssued(Refs(dss))]
    /\ \E e \in {Nil, "Retrieve datastore error"} :
         /\ err' = e
         /\ i' = 1
         /\ IF IsErr(e)
              THEN /\ exit(e)
                   /\ UNCHANGED <<dst, retrieved, tw>>
              ELSE /\ \E q \in Perms(Refs(dss)) : dst' = q
                   /\ retrieved' = retrieved \cup {"ds"}
                   /\ tw' = IF variant = "print"
                              THEN << <<"ds", "header", 0>> >> ELSE <<>>
                   /\ pc' = NextPc(pc)
                   /\ UNCHANGED <<stderr, exitCode>>
    /\ UNCHANGED <<variant, dcCount, invDS, invVM, dss, vms, vmt, listCalls,
                   collected, produced, stdout>>

\* one iteration of `for _, ds := range dst`
DatastoreLoop ==
    /\ pc = "ds_loop"
    /\ ~LoopDone(i, dst)
    /\ i \in 1..Len(dst)
    /\ LET id == dst[i] IN
         /\ produced' = [produced EXCEPT !["ds"] =
                            Append(@, NormalizeDS(id, RawDS(id, invDS[id])))]
         /\ IF variant = "print"
              THEN /\ tw' = Append(tw, <<"ds", "row", id>>)
                   /\ stdout' = Append(stdout, <<"ds", "url", id>>)
              ELSE UNCHANGED <<tw, stdout>>
    /\ i' = i + 1
    /\ UNCHANGED <<variant, pc, dcCount, invDS, invVM, err, dss, vms, dst, vmt,
                   listCalls, retrieveCalls, retrieved, collected, stderr,
                   exitCode>>

\* the loop is over: "print" flushes the tabwriter; the function returns
DatastoresReturn ==
    /\ pc = "ds_loop"
    /\ LoopDone(i, dst)
    /\ stdout' = IF variant = "print" THEN Flush(stdout, tw) ELSE stdout
    /\ tw' = <<>>
    /\ collected' = collected \cup {"ds"}
    /\ pc' = NextPc(pc)
    /\ UNCHANGED <<variant, i, dcCount, invDS, invVM, err, dss, vms, dst, vmt,
                   listCalls, retrieveCalls, retrieved, produced, stderr,
                   exitCode>>

\* vms, err := f.VirtualMachineList(ctx, "*"); if err != nil { exit(err) }
VirtualMachineList ==
    /\ pc = "vm_list"
    /\ listCalls' = [listCalls EXCEPT !["vm"] = @ + 1]
    /\ \E inv \in SeqsUpTo(VMProfiles, MaxObjs), e \in {Nil, "VirtualMachineList error"} :
         LET objs == IF e = Nil THEN [k \in 1..Len(inv) |-> k] ELSE <<>> IN
         /\ e # Nil => inv = <<>>
         /\ invVM' = inv
         /\ err' = e
         /\ vms' = objs
         /\ IF ListFailed(e, objs)
              THEN exit(e)
              ELSE pc' = NextPc(pc) /\ UNCHANGED <<stderr, exitCode>>
    /\ UNCHANGED <<variant, i, dcCount, invDS, dss, dst, vmt, retrieveCalls,
                   retrieved, collected, produced, tw, stdout>>

\* GatherVMMetrics up to its loop: the references, the one Retrieve call,
\* `if err != nil { exit(err) }`; "print" then prints the count and sorts by
\* name
RetrieveVMs ==
    /\ pc = "vm_retrieve"
    /\ retrieveCalls' = [retrieveCalls EXCEPT !["vm"] = @ + CallsIssued(Refs(vms))]
    /\ \E e \in {Nil, "Retrieve vm error"} :
         /\ err' = e
         /\ i' = 1
         /\ IF IsErr(e)
              THEN /\ exit(e)
                   /\ UNCHANGED <<vmt, retrieved, stdout>>
              ELSE /\ \E q \in Perms(Refs(vms)) :
                        IF variant = "print"
                          THEN vmt' \in ByName(q)
                          ELSE vmt' = q
                   /\ retrieved' = retrieved \cup {"vm"}
                   /\ stdout' = IF variant = "print"
                                  THEN Append(stdout, <<"vm", "count", Len(vms)>>)
                                  ELSE stdout
                   /\ pc' = NextPc(pc)
                   /\ UNCHANGED <<stderr, exitCode>>
    /\ UNCHANGED <<variant, dcCount, invDS, invVM, dss, vms, dst, listCalls,
                   collected, produced, tw>>

\* one iteration of `for _, vm := range vmt` on a machine whose config the
\* reply carries, or whose missing config reads as zero values
VMLoop ==
    /\ pc = "vm_loop"
    /\ ~LoopDone(i, vmt)
    /\ i \in 1..Len(vmt)
    /\ LET id  == vmt[i]
           raw == RawVM(id, invVM[id]) IN
         /\ produced' = [produced EXCEPT !["vm"] =
                            Append(@, IF variant = "print"
                                        THEN PrintVM(id, raw)
                                        ELSE NormalizeVM(id, raw))]
         /\ IF variant = "print"
              THEN /\ tw' = Append(tw, <<"vm", "name", id>>)
                   /\ stdout' = Append(stdout, <<"vm", "fields", id>>)
              ELSE UNCHANGED <<tw, stdout>>
    /\ i' = i + 1
    /\ UNCHANGED <<variant, pc, dcCount, invDS, invVM, err, dss, vms, dst, vmt,
                   listCalls, retrieveCalls, retrieved, collected, stderr,
                   exitCode>>

\* the iteration on a machine whose reply carries no config, vm.Config being
\* a nil pointer: reading vm.Config.GuestFullName ends the process
VMLoopPanic ==
    /\ pc = "vm_loop"
    /\ ~LoopDone(i, vmt)
    /\ i \in 1..Len(vmt)
    /\ ~RawVM(vmt[i], invVM[vmt[i]]).HasConfig
    /\ panic
    /\ UNCHANGED <<variant, i, dcCount, invDS, invVM, err, dss, vms, dst, vmt,
                   listCalls, retrieveCalls, retrieved, collected, produced,
                   tw, stdout>>

\* the loop is over: "print" flushes the tabwriter; the function returns
VMsReturn ==
    /\ pc = "vm_loop"
    /\ LoopDone(i, vmt)
    /\ stdout' = IF variant = "print" THEN Flush(stdout, tw) ELSE stdout
    /\ tw' = <<>>
    /\ collected' = collected \cup {"vm"}
    /\ pc' = NextPc(pc)
    /\ UNCHANGED <<variant, i, dcCount, invDS, invVM, err, dss, vms, dst, vmt,
                   listCalls, retrieveCalls, retrieved, produced, stderr,
                   exitCode>>

\* main returns: the process ends with status 0
MainReturn ==
    /\ pc = "main_return"
    /\ pc' = NextPc(pc)
    /\ exitCode' = 0
    /\ UNCHANGED <<variant, i, dcCount, invDS, invVM, err, dss, vms, dst, vmt,
                   listCalls, retrieveCalls, retrieved, collected, produced,
                   tw, stdout, stderr>>

Next ==
    \/ ParseURL
    \/ Connect
    \/ ResolveScope
    \/ DatastoreList
    \/ RetrieveDatastores
    \/ DatastoreLoop
    \/ DatastoresReturn
    \/ VirtualMachineList
    \/ RetrieveVMs
    \/ VMLoop
    \/ VMLoopPanic
    \/ VMsReturn
    \/ MainReturn

Spec == Init /\ [][Next]_vars

----------------------------------------------------------------------------
(* Reading the state *)

\* the driver's state, read off main's position
State ==
    CASE pc \in {"parse", "connect", "scope"}             -> "Unstarted"
      [] pc \in {"ds_list", "ds_retrieve", "ds_loop"}     -> "ScopeResolved"
      [] pc \in {"vm_list", "vm_retrieve", "vm_loop"}     -> "VolumesCollected"
      [] pc = "main_return"                               -> "VMsCollected"
      [] pc = "done"                                      -> "Done"
      [] OTHER                                            -> "Failed"

Range(s) == {s[k] : k \in 1..Len(s)}

\* the objects enumerated for a kind
Enumerated(k) == IF k = "ds" THEN dss ELSE vms

\* the objects of kind k some part of whose record is on standard output
Emitted(k) ==
    {t[3] : t \in {u \in Range(stdout) :
                      u[1] = k /\ u[2] \notin {"header", "count"}}}

\* the objects of kind k whose table row is on standard output
Rows(k) ==
    {t[3] : t \in {u \in Range(stdout) : u[1] = k /\ u[2] \in {"row", "name"}}}

\* the ids of the records built for kind k, in the order built
ProducedIds(k) == [n \in 1..Len(produced[k]) |-> produced[k][n].id]

NoDuplicates(s) == \A a, b \in 1..Len(s) : a # b => s[a] # s[b]

Terminated == exitCode # Running

----------------------------------------------------------------------------
(* The claims *)

\* C1: for each kind, at most one batched Retrieve call is ever issued, and
\* exactly one has been issued once the kind's collection has completed,
\* whatever the number of enumerated objects.
C1_OneBatchedRetrievePerKind ==
    \A k \in Kinds :
        /\ retrieveCalls[k] <= 1
        /\ (k \in collected /\ Len(Enumerated(k)) > 0) => retrieveCalls[k] = 1

C1_Witness ==
    /\ collected = Kinds
    /\ Len(dss) >= 2
    /\ Len(vms) >= 2
    /\ retrieveCalls = [k \in Kinds |-> 1]

\* C2 (as claimed): when the virtual-machine Retrieve fails after the
\* datastores were collected, the final result holds the record of every
\* enumerated datastore, the error is reported and the status is non-zero.
C2_VolumeRecordsSurviveVMFailure ==
    (Terminated /\ "ds" \in collected /\ err = "Retrieve vm error") =>
        /\ Range(dss) \subseteq Rows("ds")
        /\ stderr = <<err>>
        /\ exitCode # 0

C4_AbsentFieldsYieldSentinel ==
    /\ \A n \in 1..Len(produced["ds"]) :
          LET r == produced["ds"][n] IN
          RawDS(r.id, invDS[r.id]).Capacity = Absent =>
              r.records.capacity = Absent
    /\ \A n \in 1..Len(produced["vm"]) :
          LET r == produced["vm"][n] IN
          RawVM(r.id, invVM[r.id]).MemoryMB = Absent =>
              r.records.mem_mb = Absent
    /\ exitCode # 2

\* C5: with no datacenter, the pass ends in failure at scope resolution at
\* the latest: no enumeration, no retrieval, no record, no output, and the
\* run never leaves the steps before enumeration except to fail with one
\* diagnostic line and status 1.
C5_NoDatacenterFailsBeforeEnumeration ==
    dcCount = 0 =>
        /\ pc \in {"parse", "connect", "scope", "failed"}
        /\ listCalls = [k \in Kinds |-> 0]
        /\ retrieveCalls = [k \in Kinds |-> 0]
        /\ produced = [k \in Kinds |-> <<>>]
        /\ stdout = <<>>
        /\ pc = "failed" => (exitCode = 1 /\ err # Nil /\ stderr = <<err>>)

C5_Witness ==
    /\ dcCount = 0
    /\ pc = "failed"
    /\ err = "DefaultDatacenter error"
    /\ exitCode = 1

\* C6: every step of the driver keeps its state or moves it one place along
\* Unstarted, ScopeResolved, VolumesCollected, VMsCollected, Done, or moves it
\* to Failed; the virtual machines are enumerated only after the datastore
\* collection has returned; in Failed and in Done no call is issued.
C6_Step ==
    LET s == State
        t == State' IN
    /\ \/ t = s
       \/ <<s, t>> \in {<<"Unstarted", "ScopeResolved">>,
                        <<"ScopeResolved", "VolumesCollected">>,
                        <<"VolumesCollected", "VMsCollected">>,
                        <<"VMsCollected", "Done">>}
       \/ /\ t = "Failed"
          /\ s \in {"Unstarted", "ScopeResolved", "VolumesCollected"}
    /\ listCalls'["vm"] > 0 => "ds" \in collected
    /\ retrieveCalls'["vm"] > 0 => listCalls["vm"] > 0
    /\ retrieveCalls'["ds"] > 0 => listCalls["ds"] > 0
    /\ s \in {"Done", "Failed"} =>
          /\ t = s
          /\ UNCHANGED <<listCalls, retrieveCalls>>
    /\ (t = "Done") = (exitCode' = 0)
    /\ (t = "Failed") = (exitCode' \notin {Running, 0})

C7_OutputOnlyAtDone ==
    (Emitted("ds") \cup Emitted("vm")) # {} => collected = Kinds

\* C7 (amended): output is per kind.  Only the printing program emits; what
\* it emits of a kind is emitted after that kind's Retrieve has succeeded; the
\* datastore rows are all on standard output once the datastore collection
\* has returned, before the virtual machines are enumerated, and the virtual
\* machines' rows once theirs has.
C7_OutputPerKindAfterRetrieval ==
    /\ variant = "collect" => stdout = <<>>
    /\ \A k \in Kinds :
          /\ (\E t \in Range(stdout) : t[1] = k) => k \in retrieved
          /\ Emitted(k) \subseteq Range(Enumerated(k))
          /\ (variant = "print" /\ k \in collected) =>
                Rows(k) = Range(Enumerated(k))
    /\ (\E t \in Range(stdout) : t[1] = "vm") => "ds" \in collected

C7_Witness ==
    /\ variant = "print"
    /\ pc = "vm_list"
    /\ Len(dss) >= 2
    /\ Rows("ds") = Range(dss)

\* C8: an enumeration that returns no object is no failure: a run fails with
\* status 1 only on an error returned by a call, a kind with no object has no
\* record, and a run over an empty inventory in which no call returns an
\* error ends in Done with status 0.
C8_EmptyInventoryIsNotAnError ==
    /\ (pc = "failed" /\ exitCode = 1) => (err # Nil /\ stderr = <<err>>)
    /\ \A k \in Kinds : Len(Enumerated(k)) = 0 => produced[k] = <<>>
    /\ (Terminated /\ err = Nil /\ vms = <<>>) =>
          /\ pc = "done"
          /\ exitCode = 0
          /\ collected = Kinds
          /\ produced["vm"] = <<>>

C8_Witness ==
    /\ pc = "done"
    /\ exitCode = 0
    /\ listCalls = [k \in Kinds |-> 1]
    /\ dss = <<>>
    /\ vms = <<>>
    /\ produced = [k \in Kinds |-> <<>>]

\* C9: the records built for a kind are records of enumerated objects, no
\* object has two, each carries a name tag, and once the kind's collection
\* has returned every enumerated object has its record.
C9_OneRecordPerObject ==
    \A k \in Kinds :
        /\ NoDuplicates(ProducedIds(k))
        /\ Range(ProducedIds(k)) \subseteq Range(Enumerated(k))
        /\ \A n \in 1..Len(produced[k]) : "name" \in DOMAIN produced[k][n].tags
        /\ k \in collected => Range(ProducedIds(k)) = Range(Enumerated(k))

C9_Witness ==
    /\ collected = Kinds
    /\ Len(produced["ds"]) >= 2
    /\ Len(produced["vm"]) >= 2

\* C10 (as claimed): a run that has ended has a non-zero status exactly when
\* a call returned an error; it then has written exactly that one diagnostic
\* line; a run that ended with status 0 has written none and has flushed its
\* output.
C10_ExitStatusContract ==
    Terminated =>
        /\ (exitCode # 0) = (err # Nil)
        /\ exitCode # 0 => stderr = <<err>>
        /\ exitCode = 0 => (stderr = <<>> /\ tw = <<>>)

====
